---------------------------- MODULE Spec2Model ----------------------------
(***************************************************************************)
(* Model of SAF/features/coordination/helper.py: the CN-metrics and        *)
(* aggregation pipeline of get_CN_atom_count_data; and, in the last        *)
(* section, of compute_features of SAF/features/environment/ternary.py.    *)
(*                                                                         *)
(* Python values are modelled as follows.                                  *)
(*   - a dict is a function; a dict under construction grows with @@.      *)
(*   - the value stored for a (site, method) pair is a Python object: None *)
(*     or a dict, written None and Dict(f).                                *)
(*   - a connection is the 4-tuple <<label, dist, coord_1, coord_2>> of    *)
(*     cifkit; Python index k is TLA+ index k + 1.  An atom label such as  *)
(*     "Sb1" is the pair <<"Sb", 1>>.                                      *)
(*   - numbers are exact: an integer, or a rational <<num, den>> with      *)
(*     den > 0 for the result of a true division.  The rounding of IEEE    *)
(*     doubles is outside the model.                                       *)
(*   - ConvexHull and compute_polyhedron_metrics are external: the hull    *)
(*     either raises or yields a metrics dict whose number_of_vertices is  *)
(*     chosen nondeterministically.                                        *)
(***************************************************************************)
EXTENDS Integers, Sequences, FiniteSets, TLC

(***************************************************************************)
(* Bounds of the checked instances.                                        *)
(***************************************************************************)
MaxCN == 4
MaxArity == 5
MaxNeighbors == 4
MaxVal == 2

(***************************************************************************)
(* helper.py:22, "if len(connection_data) > 3".                            *)
(***************************************************************************)
\* mutant: the test written "> 2"
MinShell_off_by_one == 3 - 1
MinShell == 3

Min2(a, b) == IF a <= b THEN a ELSE b
Max2(a, b) == IF a >= b THEN a ELSE b

(***************************************************************************)
(* Iteration orders.  Python dicts iterate in insertion order; the tables  *)
(* of a Cif are filled site by site and method by method.                  *)
(***************************************************************************)
SiteOrder == <<"Th1", "Sb1">>
MethodOrder == <<"m1", "m2">>
StatOrder == <<"min", "max", "avg">>
ElementUniverse == <<"Th", "Sb", "Ge", "Co", "In", "Zz", "Xx">>

Range(s) == {s[k] : k \in 1..Len(s)}
Sites == Range(SiteOrder)
Methods == Range(MethodOrder)
Stats == Range(StatOrder)

KeysInOrder(f, order) == SelectSeq(order, LAMBDA k : k \in DOMAIN f)

(***************************************************************************)
(* Python objects stored per (site, method).                               *)
(***************************************************************************)
None == [tag |-> "None"]
Dict(f) == [tag |-> "dict", rec |-> f]
IsNone(obj) == obj.tag = "None"

(***************************************************************************)
(* seq[:n]                                                                 *)
(***************************************************************************)
PySlice(seq, n) ==
    IF n >= 0 THEN SubSeq(seq, 1, Min2(n, Len(seq)))
    ELSE SubSeq(seq, 1, Max2(Len(seq) + n, 0))

(***************************************************************************)
(* Exact arithmetic for sum(...) / len(...) and sum_value / count.         *)
(***************************************************************************)
ToRat(n) == <<n, 1>>
RatAdd(a, b) == <<a[1] * b[2] + b[1] * a[2], a[2] * b[2]>>
RatDiv(a, k) == <<a[1], a[2] * k>>
RatLeq(a, b) == a[1] * b[2] <= b[1] * a[2]
RatEq(a, b) == a[1] * b[2] = b[1] * a[2]

RECURSIVE SeqMin(_)
SeqMin(s) == IF Len(s) = 1 THEN s[1] ELSE Min2(s[1], SeqMin(Tail(s)))
RECURSIVE SeqMax(_)
SeqMax(s) == IF Len(s) = 1 THEN s[1] ELSE Max2(s[1], SeqMax(Tail(s)))
RECURSIVE SeqSum(_)
SeqSum(s) == IF Len(s) = 0 THEN 0 ELSE s[1] + SeqSum(Tail(s))
RECURSIVE RatSum(_)
RatSum(s) == IF Len(s) = 0 THEN ToRat(0) ELSE RatAdd(s[1], RatSum(Tail(s)))

(***************************************************************************)
(* string_parser.get_atom_type_from_label: "Sb1" -> "Sb".                  *)
(***************************************************************************)
get_atom_type_from_label(label) == label[1]

(***************************************************************************)
(* SAF.utils.element_order: the unique elements in role order.  The three  *)
(* classifiers return the elements ordered by a fixed rank of the element. *)
(***************************************************************************)
get_role_elements(elements) == SelectSeq(ElementUniverse, LAMBDA e : e \in elements)

VARIABLES
    unique_elements,          \* cif.unique_elements
    connections,              \* cif.connections
    CN_max_gap_per_site,      \* cif.CN_max_gap_per_site
    pc,                       \* position in get_CN_atom_count_data
    err,                      \* the exception that ended the call, or "none"
    i,                        \* sites entered by the loop of helper.py:16
    j,                        \* methods of the current site processed (helper.py:18)
    polyhedron_points,        \* the local of helper.py:20
    site_data,                \* CN_metrics
    diagnostics,              \* lines printed by helper.py:33
    hull_errors,              \* the pairs for which ConvexHull raised (helper.py:31)
    best_site_data,           \* the local of ternary.py:52
    results,                  \* the dictionary returned by ternary.py:161
    min_max_avg_CN_metrics,
    CN_atom_count_data,
    min_max_avg_CN_count,
    avg_CN_metrics,
    avg_CN_atom_count,
    bound                     \* local names bound so far

vars == <<unique_elements, connections, CN_max_gap_per_site, pc, err, i, j,
          polyhedron_points, site_data, diagnostics, hull_errors, best_site_data, results,
          min_max_avg_CN_metrics,
          CN_atom_count_data, min_max_avg_CN_count, avg_CN_metrics,
          avg_CN_atom_count, bound>>

inputs == <<unique_elements, connections, CN_max_gap_per_site>>
environment == <<best_site_data, results>>


(***************************************************************************)
(* helper.py:54-60 and the like: the if/elif chain gives a connection to   *)
(* the first role whose element equals the parsed label, or to none.       *)
(***************************************************************************)
FirstMatch(parsed_label, roles) ==
    IF \E k \in 1..Len(roles) : roles[k] = parsed_label
    THEN CHOOSE k \in 1..Len(roles) :
             /\ roles[k] = parsed_label
             /\ \A h \in 1..(k - 1) : roles[h] # parsed_label
    ELSE 0

element_count(CN_connections, roles, r) ==
    Cardinality({k \in 1..Len(CN_connections) :
        FirstMatch(get_atom_type_from_label(CN_connections[k][1]), roles) = r})

(***************************************************************************)
(* helper.py:50-51: CN = data["number_of_vertices"], and the slice.        *)
(***************************************************************************)
\* mutant: the connections are not sliced to the vertex count
CN_connections_unsliced(label_connections, CN_metrics, site_label, method) ==
    label_connections[site_label]

CN_connections_of(label_connections, CN_metrics, site_label, method) ==
    PySlice(label_connections[site_label],
            CN_metrics[site_label][method].rec["number_of_vertices"])

\* mutant: the slice stops one connection short, [:CN - 1]
binary_CN_short_slice(label_connections, CN_metrics, A, B) ==
    [site_label \in DOMAIN CN_metrics |->
        [method \in DOMAIN CN_metrics[site_label] |->
            LET CN == CN_metrics[site_label][method].rec["number_of_vertices"]
                cc == SubSeq(label_connections[site_label], 1, CN - 1)
            IN  Dict(("A_count" :> element_count(cc, <<A, B>>, 1))
                  @@ ("B_count" :> element_count(cc, <<A, B>>, 2)))]]

_compute_number_of_atoms_in_binary_CN(label_connections, CN_metrics, A, B) ==
    [site_label \in DOMAIN CN_metrics |->
        [method \in DOMAIN CN_metrics[site_label] |->
            LET cc == CN_connections_of(label_connections, CN_metrics, site_label, method)
            IN  Dict(("A_count" :> element_count(cc, <<A, B>>, 1))
                  @@ ("B_count" :> element_count(cc, <<A, B>>, 2)))]]

_compute_number_of_atoms_in_ternary_CN(label_connections, CN_metrics, R, M, X) ==
    [site_label \in DOMAIN CN_metrics |->
        [method \in DOMAIN CN_metrics[site_label] |->
            LET cc == CN_connections_of(label_connections, CN_metrics, site_label, method)
            IN  Dict(("R_count" :> element_count(cc, <<R, M, X>>, 1))
                  @@ ("M_count" :> element_count(cc, <<R, M, X>>, 2))
                  @@ ("X_count" :> element_count(cc, <<R, M, X>>, 3)))]]

_compute_number_of_atoms_in_quaternary_CN(label_connections, CN_metrics, A, B, C, D) ==
    [site_label \in DOMAIN CN_metrics |->
        [method \in DOMAIN CN_metrics[site_label] |->
            LET cc == CN_connections_of(label_connections, CN_metrics, site_label, method)
            IN  Dict(("A_count" :> element_count(cc, <<A, B, C, D>>, 1))
                  @@ ("B_count" :> element_count(cc, <<A, B, C, D>>, 2))
                  @@ ("C_count" :> element_count(cc, <<A, B, C, D>>, 3))
                  @@ ("D_count" :> element_count(cc, <<A, B, C, D>>, 4)))]]

(***************************************************************************)
(* Iterating or subscripting None raises TypeError (helper.py:142, :50).   *)
(***************************************************************************)
HasNone(data) ==
    \E label \in DOMAIN data : \E method \in DOMAIN data[label] :
        IsNone(data[label][method])

(***************************************************************************)
(* helper.py:140-145: the list collected for one metric of one label.      *)
(***************************************************************************)
\* mutant: a method without the metric contributes a zero
metrics_list_zero_filled(label_data, key) ==
    LET ms == KeysInOrder(label_data, MethodOrder)
    IN  [k \in 1..Len(ms) |->
            IF key \in DOMAIN label_data[ms[k]].rec THEN label_data[ms[k]].rec[key] ELSE 0]

metrics_list(label_data, key) ==
    LET ms == SelectSeq(KeysInOrder(label_data, MethodOrder),
                        LAMBDA m : key \in DOMAIN label_data[m].rec)
    IN  [k \in 1..Len(ms) |-> label_data[ms[k]].rec[key]]

(***************************************************************************)
(* helper.py:149-153.                                                      *)
(***************************************************************************)
min_max_avg(values) ==
    [min |-> SeqMin(values), max |-> SeqMax(values),
     avg |-> RatDiv(ToRat(SeqSum(values)), Len(values))]

_compute_min_max_avg_per_atomic_label(data) ==
    [label \in DOMAIN data |->
        LET keys == UNION {DOMAIN data[label][m].rec : m \in DOMAIN data[label]}
        IN  [key \in keys |-> min_max_avg(metrics_list(data[label], key))]]

(***************************************************************************)
(* helper.py:175: values[stat], an int for min and max of integer data and *)
(* the quotient for avg.                                                   *)
(***************************************************************************)
\* mutant: the max column reads values["min"]
stat_value_max_reads_min(values, stat) ==
    IF stat = "avg" THEN values.avg ELSE ToRat(values.min)

stat_value(values, stat) ==
    IF stat = "avg" THEN values.avg ELSE ToRat(values[stat])

(***************************************************************************)
(* helper.py:169-176 for one stat and one metric: the running sum and the  *)
(* running count over the labels that hold the metric.                     *)
(***************************************************************************)
global_sum(min_max_avg_result, stat, metric) ==
    LET ls == SelectSeq(KeysInOrder(min_max_avg_result, SiteOrder),
                        LAMBDA l : metric \in DOMAIN min_max_avg_result[l])
    IN  RatSum([k \in 1..Len(ls) |-> stat_value(min_max_avg_result[ls[k]][metric], stat)])

\* mutant: the divisor is the number of labels
global_count_all_labels(min_max_avg_result, stat, metric) ==
    Cardinality(DOMAIN min_max_avg_result)

global_count(min_max_avg_result, stat, metric) ==
    Cardinality({l \in DOMAIN min_max_avg_result : metric \in DOMAIN min_max_avg_result[l]})

_compute_global_avg_for_min_max_avg_metrics(min_max_avg_result) ==
    LET metrics == UNION {DOMAIN min_max_avg_result[l] : l \in DOMAIN min_max_avg_result}
    IN  [stat \in Stats |->
            [metric \in metrics |->
                RatDiv(global_sum(min_max_avg_result, stat, metric),
                       global_count(min_max_avg_result, stat, metric))]]


(***************************************************************************)
(* The inputs of the pipeline instance: a two-site structure.  Th1 has the *)
(* shell Sb1, Sb2, Sb3, Sb4, Th2 (distances in 1/100 Angstrom); Sb1 has a  *)
(* shell of five different neighbours.                                     *)
(***************************************************************************)
Connection(site, k, label, dist) == <<label, dist, <<site, 0>>, <<site, k>>>>

StructureConnections ==
    ("Th1" :> << Connection("Th1", 1, <<"Sb", 1>>, 290),
                 Connection("Th1", 2, <<"Sb", 2>>, 300),
                 Connection("Th1", 3, <<"Sb", 3>>, 305),
                 Connection("Th1", 4, <<"Sb", 4>>, 310),
                 Connection("Th1", 5, <<"Th", 2>>, 330) >>)
 @@ ("Sb1" :> << Connection("Sb1", 1, <<"Th", 1>>, 290),
                 Connection("Sb1", 2, <<"Ge", 1>>, 300),
                 Connection("Sb1", 3, <<"Co", 1>>, 310),
                 Connection("Sb1", 4, <<"Sb", 2>>, 320),
                 Connection("Sb1", 5, <<"Th", 2>>, 330) >>)

ElementSet(arity) == {ElementUniverse[k] : k \in 1..arity}

InitLocals ==
    /\ pc = "metrics"
    /\ err = "none"
    /\ i = 0
    /\ j = 0
    /\ polyhedron_points = <<>>
    /\ site_data = <<>>
    /\ diagnostics = <<>>
    /\ hull_errors = {}
    /\ best_site_data = <<>>
    /\ results = <<>>
    /\ min_max_avg_CN_metrics = <<>>
    /\ CN_atom_count_data = <<>>
    /\ min_max_avg_CN_count = <<>>
    /\ avg_CN_metrics = <<>>
    /\ avg_CN_atom_count = <<>>
    /\ bound = {}

Init ==
    /\ unique_elements \in {ElementSet(a) : a \in 2..MaxArity}
    /\ connections = StructureConnections
    /\ CN_max_gap_per_site \in [Sites -> [Methods -> [CN : 0..MaxCN]]]
    /\ InitLocals

(***************************************************************************)
(* get_CN_metrics_per_method, helper.py:9-39, one loop iteration a step.   *)
(***************************************************************************)
labels == KeysInOrder(CN_max_gap_per_site, SiteOrder)
methods_of(lbl) == KeysInOrder(CN_max_gap_per_site[lbl], MethodOrder)
label == labels[i]
method == methods_of(label)[j + 1]
connection_data == PySlice(connections[label], CN_max_gap_per_site[label][method].CN)

InnerLoopDone == IF i = 0 THEN TRUE ELSE j = Len(methods_of(label))
InMethod == pc = "metrics" /\ i >= 1 /\ j < Len(methods_of(label))

\* helper.py:23-24 and :28
build_polyhedron_points(cd) == [k \in 1..Len(cd) |-> cd[k][4]] \o <<cd[1][3]>>

\* helper.py:16-17
SiteIter ==
    /\ pc = "metrics" /\ InnerLoopDone /\ i < Len(labels)
    /\ i' = i + 1
    /\ j' = 0
    /\ site_data' = site_data @@ (labels[i + 1] :> <<>>)
    /\ UNCHANGED <<inputs, environment, pc, err, polyhedron_points, diagnostics, hull_errors,
                   min_max_avg_CN_metrics, CN_atom_count_data, min_max_avg_CN_count,
                   avg_CN_metrics, avg_CN_atom_count, bound>>

\* mutant: the small shell is recorded as None, like a failed hull
MethodSkip_records_None ==
    /\ InMethod
    /\ ~(Len(connection_data) > MinShell)
    /\ polyhedron_points' = <<>>
    /\ site_data' = [site_data EXCEPT ![label] = @ @@ (method :> None)]
    /\ j' = j + 1
    /\ UNCHANGED <<inputs, environment, pc, err, i, diagnostics, hull_errors,
                   min_max_avg_CN_metrics, CN_atom_count_data, min_max_avg_CN_count,
                   avg_CN_metrics, avg_CN_atom_count, bound>>

\* helper.py:19-26, the else branch: continue
MethodSkip ==
    /\ InMethod
    /\ ~(Len(connection_data) > MinShell)
    /\ polyhedron_points' = <<>>
    /\ j' = j + 1
    /\ UNCHANGED <<inputs, environment, pc, err, i, site_data, diagnostics, hull_errors,
                   min_max_avg_CN_metrics, CN_atom_count_data, min_max_avg_CN_count,
                   avg_CN_metrics, avg_CN_atom_count, bound>>

\* mutant: the failure is recorded but nothing is printed
MethodHullFail_silent ==
    /\ InMethod
    /\ Len(connection_data) > MinShell
    /\ polyhedron_points' = build_polyhedron_points(connection_data)
    /\ hull_errors' = hull_errors \cup {<<label, method>>}
    /\ site_data' = [site_data EXCEPT ![label] = @ @@ (method :> None)]
    /\ j' = j + 1
    /\ UNCHANGED <<inputs, environment, pc, err, i, diagnostics,
                   min_max_avg_CN_metrics, CN_atom_count_data, min_max_avg_CN_count,
                   avg_CN_metrics, avg_CN_atom_count, bound>>

\* helper.py:19-35, ConvexHull raises
MethodHullFail ==
    /\ InMethod
    /\ Len(connection_data) > MinShell
    /\ polyhedron_points' = build_polyhedron_points(connection_data)
    /\ hull_errors' = hull_errors \cup {<<label, method>>}
    /\ diagnostics' = Append(diagnostics, <<label, method>>)
    /\ site_data' = [site_data EXCEPT ![label] = @ @@ (method :> None)]
    /\ j' = j + 1
    /\ UNCHANGED <<inputs, environment, pc, err, i,
                   min_max_avg_CN_metrics, CN_atom_count_data, min_max_avg_CN_count,
                   avg_CN_metrics, avg_CN_atom_count, bound>>

\* helper.py:19-31 and :37-38, ConvexHull succeeds
MethodHullOk ==
    /\ InMethod
    /\ Len(connection_data) > MinShell
    /\ polyhedron_points' = build_polyhedron_points(connection_data)
    /\ \E number_of_vertices \in (MinShell + 1)..Len(polyhedron_points') :
           site_data' = [site_data EXCEPT ![label] =
               @ @@ (method :> Dict("number_of_vertices" :> number_of_vertices))]
    /\ j' = j + 1
    /\ UNCHANGED <<inputs, environment, pc, err, i, diagnostics, hull_errors,
                   min_max_avg_CN_metrics, CN_atom_count_data, min_max_avg_CN_count,
                   avg_CN_metrics, avg_CN_atom_count, bound>>

\* helper.py:19-31 and :36-38, ConvexHull succeeds and compute_polyhedron_metrics
\* "returns none if there is any error"
MethodMetricsNone ==
    /\ InMethod
    /\ Len(connection_data) > MinShell
    /\ polyhedron_points' = build_polyhedron_points(connection_data)
    /\ site_data' = [site_data EXCEPT ![label] = @ @@ (method :> None)]
    /\ j' = j + 1
    /\ UNCHANGED <<inputs, environment, pc, err, i, diagnostics, hull_errors,
                   min_max_avg_CN_metrics, CN_atom_count_data, min_max_avg_CN_count,
                   avg_CN_metrics, avg_CN_atom_count, bound>>

\* helper.py:39 and :187
MetricsReturn ==
    /\ pc = "metrics" /\ InnerLoopDone /\ i = Len(labels)
    /\ pc' = "reduce_metrics"
    /\ bound' = bound \cup {"CN_metrics"}
    /\ UNCHANGED <<inputs, environment, err, i, j, polyhedron_points, site_data, diagnostics, hull_errors,
                   min_max_avg_CN_metrics, CN_atom_count_data, min_max_avg_CN_count,
                   avg_CN_metrics, avg_CN_atom_count>>

Raise(exception) ==
    /\ pc' = "raised"
    /\ err' = exception

\* helper.py:189
ReduceMetrics ==
    /\ pc = "reduce_metrics"
    /\ IF HasNone(site_data)
       THEN /\ Raise("TypeError")
            /\ UNCHANGED <<min_max_avg_CN_metrics, bound>>
       ELSE /\ min_max_avg_CN_metrics' = _compute_min_max_avg_per_atomic_label(site_data)
            /\ bound' = bound \cup {"min_max_avg_CN_metrics"}
            /\ pc' = "count"
            /\ err' = err
    /\ UNCHANGED <<inputs, environment, i, j, polyhedron_points, site_data, diagnostics, hull_errors,
                   CN_atom_count_data, min_max_avg_CN_count,
                   avg_CN_metrics, avg_CN_atom_count>>

\* the body of one of the ifs of helper.py:190-198
Count(data) ==
    /\ pc = "count"
    /\ IF HasNone(site_data)
       THEN /\ Raise("TypeError")
            /\ UNCHANGED <<CN_atom_count_data, bound>>
       ELSE /\ CN_atom_count_data' = data
            /\ bound' = bound \cup {"CN_atom_count_data"}
            /\ pc' = "reduce_count"
            /\ err' = err
    /\ UNCHANGED <<inputs, environment, i, j, polyhedron_points, site_data, diagnostics, hull_errors,
                   min_max_avg_CN_metrics, min_max_avg_CN_count,
                   avg_CN_metrics, avg_CN_atom_count>>

\* helper.py:190-192
CountBinary ==
    /\ Cardinality(unique_elements) = 2
    /\ LET AB == get_role_elements(unique_elements)
       IN  Count(_compute_number_of_atoms_in_binary_CN(
                     connections, site_data, AB[1], AB[2]))

\* helper.py:193-195
CountTernary ==
    /\ Cardinality(unique_elements) = 3
    /\ LET RMX == get_role_elements(unique_elements)
       IN  Count(_compute_number_of_atoms_in_ternary_CN(
                     connections, site_data, RMX[1], RMX[2], RMX[3]))

\* helper.py:196-198
CountQuaternary ==
    /\ Cardinality(unique_elements) = 4
    /\ LET ABCD == get_role_elements(unique_elements)
       IN  Count(_compute_number_of_atoms_in_quaternary_CN(
                     connections, site_data, ABCD[1], ABCD[2], ABCD[3], ABCD[4]))

\* helper.py:190-198 when none of the three conditions holds
CountNone ==
    /\ pc = "count"
    /\ Cardinality(unique_elements) \notin {2, 3, 4}
    /\ pc' = "reduce_count"
    /\ UNCHANGED <<inputs, environment, err, i, j, polyhedron_points, site_data, diagnostics, hull_errors,
                   min_max_avg_CN_metrics, CN_atom_count_data, min_max_avg_CN_count,
                   avg_CN_metrics, avg_CN_atom_count, bound>>

\* helper.py:200
ReduceCount ==
    /\ pc = "reduce_count"
    /\ IF "CN_atom_count_data" \notin bound
       THEN /\ Raise("UnboundLocalError")
            /\ UNCHANGED <<min_max_avg_CN_count, bound>>
       ELSE IF HasNone(CN_atom_count_data)
       THEN /\ Raise("TypeError")
            /\ UNCHANGED <<min_max_avg_CN_count, bound>>
       ELSE /\ min_max_avg_CN_count' = _compute_min_max_avg_per_atomic_label(CN_atom_count_data)
            /\ bound' = bound \cup {"min_max_avg_CN_count"}
            /\ pc' = "global_metrics"
            /\ err' = err
    /\ UNCHANGED <<inputs, environment, i, j, polyhedron_points, site_data, diagnostics, hull_errors,
                   min_max_avg_CN_metrics, CN_atom_count_data,
                   avg_CN_metrics, avg_CN_atom_count>>

\* helper.py:202
GlobalMetrics ==
    /\ pc = "global_metrics"
    /\ avg_CN_metrics' = _compute_global_avg_for_min_max_avg_metrics(min_max_avg_CN_metrics)
    /\ bound' = bound \cup {"avg_CN_metrics"}
    /\ pc' = "global_count"
    /\ UNCHANGED <<inputs, environment, err, i, j, polyhedron_points, site_data, diagnostics, hull_errors,
                   min_max_avg_CN_metrics, CN_atom_count_data, min_max_avg_CN_count,
                   avg_CN_atom_count>>

\* helper.py:203
GlobalCount ==
    /\ pc = "global_count"
    /\ avg_CN_atom_count' = _compute_global_avg_for_min_max_avg_metrics(min_max_avg_CN_count)
    /\ bound' = bound \cup {"avg_CN_atom_count"}
    /\ pc' = "return"
    /\ UNCHANGED <<inputs, environment, err, i, j, polyhedron_points, site_data, diagnostics, hull_errors,
                   min_max_avg_CN_metrics, CN_atom_count_data, min_max_avg_CN_count,
                   avg_CN_metrics>>

\* helper.py:204
Return ==
    /\ pc = "return"
    /\ pc' = "returned"
    /\ UNCHANGED <<inputs, environment, err, i, j, polyhedron_points, site_data, diagnostics, hull_errors,
                   min_max_avg_CN_metrics, CN_atom_count_data, min_max_avg_CN_count,
                   avg_CN_metrics, avg_CN_atom_count, bound>>

Next ==
    \/ SiteIter
    \/ MethodSkip
    \/ MethodHullFail
    \/ MethodHullOk
    \/ MethodMetricsNone
    \/ MetricsReturn
    \/ ReduceMetrics
    \/ CountBinary
    \/ CountTernary
    \/ CountQuaternary
    \/ CountNone
    \/ ReduceCount
    \/ GlobalMetrics
    \/ GlobalCount
    \/ Return

Spec == Init /\ [][Next]_vars


(***************************************************************************)
(* Vocabulary of the properties.                                           *)
(***************************************************************************)
Arity == Cardinality(unique_elements)
SelectedCN(s, m) == CN_max_gap_per_site[s][m].CN
Occurrences(seq, x) == Cardinality({k \in 1..Len(seq) : seq[k] = x})
Terminated == pc \in {"returned", "raised"}
IsBound(name) == name \in bound
\* the shell of the pair holds more than three connections
HasShell(s, m) == Len(PySlice(connections[s], SelectedCN(s, m))) > 3
Recorded(s, m) == s \in DOMAIN site_data /\ m \in DOMAIN site_data[s]
\* ConvexHull raised for the pair
HullFailed(s, m) == <<s, m>> \in hull_errors
\* the entry of the pair is None
NoneRecorded(s, m) == Recorded(s, m) /\ IsNone(site_data[s][m])
NoNoneRecorded == \A s \in DOMAIN site_data : \A m \in DOMAIN site_data[s] : ~IsNone(site_data[s][m])
Present(s, m) == Recorded(s, m) /\ ~IsNone(site_data[s][m])
AllPairs == {sm \in Sites \X Methods :
                /\ sm[1] \in DOMAIN CN_max_gap_per_site
                /\ sm[2] \in DOMAIN CN_max_gap_per_site[sm[1]]}

(***************************************************************************)
(* C1.  When hull construction fails for one (site, method) pair of a      *)
(* structure of 2, 3 or 4 elements, the computation is not aborted: the    *)
(* call does not raise, and once it has ended it has returned both global  *)
(* summaries.                                                              *)
(***************************************************************************)
C1_HullFailureDoesNotAbort ==
    (Cardinality(hull_errors) = 1 /\ Arity \in {2, 3, 4}) =>
        /\ pc # "raised"
        /\ Terminated => (IsBound("avg_CN_metrics") /\ IsBound("avg_CN_atom_count"))

(***************************************************************************)
(* C2.  For a structure whose number of unique elements is not 2, 3 or 4,  *)
(* the call ends with an UnsupportedArity condition and returns nothing.   *)
(* Stated for the runs in which no entry of the geometry result is None.   *)
(***************************************************************************)
C2_UnsupportedArityCondition ==
    (Arity \notin {2, 3, 4} /\ NoNoneRecorded /\ Terminated) =>
        (pc = "raised" /\ err = "UnsupportedArity")

(***************************************************************************)
(* C3.  Every (site, method) pair whose selected CN is 3 or less has no    *)
(* entry in the result and no diagnostic; nothing is raised inside         *)
(* get_CN_metrics_per_method, and once it has returned every pair with a   *)
(* shell of more than three connections has been processed.                *)
(***************************************************************************)
C3_LowCNAbsentNoDiagnostic ==
    /\ \A sm \in AllPairs :
           SelectedCN(sm[1], sm[2]) <= 3 =>
               /\ ~Recorded(sm[1], sm[2])
               /\ Occurrences(diagnostics, sm) = 0
    /\ pc = "raised" => IsBound("CN_metrics")
    /\ IsBound("CN_metrics") =>
           \A sm \in AllPairs : HasShell(sm[1], sm[2]) => Recorded(sm[1], sm[2])

\* Th1/m1 has a low CN and was skipped; the later pairs were processed
C3_Witness ==
    /\ IsBound("CN_metrics")
    /\ SelectedCN("Th1", "m1") <= 3
    /\ ~Recorded("Th1", "m1")
    /\ Recorded("Th1", "m2")
    /\ Recorded("Sb1", "m1")
    /\ diagnostics = <<>>
    /\ hull_errors = {}

(***************************************************************************)
(* C4.  Every hull failure leaves None for exactly its pair and exactly    *)
(* one diagnostic naming that site and method; a pair whose hull did not   *)
(* fail has no diagnostic; and after a failure the loop goes on: once      *)
(* get_CN_metrics_per_method has returned, every pair with a shell of more *)
(* than three connections has its entry.                                   *)
(***************************************************************************)
C4_OneDiagnosticPerHullFailure ==
    /\ \A sm \in AllPairs :
           /\ HullFailed(sm[1], sm[2]) => NoneRecorded(sm[1], sm[2])
           /\ Occurrences(diagnostics, sm) = IF HullFailed(sm[1], sm[2]) THEN 1 ELSE 0
    /\ \A k \in 1..Len(diagnostics) : diagnostics[k] \in AllPairs
    /\ IsBound("CN_metrics") =>
           \A sm \in AllPairs : HasShell(sm[1], sm[2]) => Recorded(sm[1], sm[2])

\* the hull of Th1/m1 failed, and the next method and the next site went on
C4_Witness ==
    /\ IsBound("CN_metrics")
    /\ HullFailed("Th1", "m1")
    /\ Present("Th1", "m2")
    /\ Present("Sb1", "m1")
    /\ diagnostics = << <<"Th1", "m1">> >>


(***************************************************************************)
(* C5.  The scenario: A = Th, B = Sb; Th1 has the neighbours Sb1, Sb2,     *)
(* Sb3, Sb4, Th2 (nearest first) and CN = 4 under m1.                      *)
(***************************************************************************)
ScenarioNeighbors == << <<"Sb", 1>>, <<"Sb", 2>>, <<"Sb", 3>>, <<"Sb", 4>>, <<"Th", 2>> >>

Scenario ==
    /\ get_role_elements(unique_elements) = <<"Th", "Sb">>
    /\ [k \in 1..Len(connections["Th1"]) |-> connections["Th1"][k][1]] = ScenarioNeighbors
    /\ SelectedCN("Th1", "m1") = 4

\* the point set of Th1/m1 right after its iteration: the coordinates of the
\* four nearest neighbours, then the coordinate of the centre
ScenarioPointSet ==
    (pc = "metrics" /\ i = 1 /\ j = 1) =>
        /\ Len(polyhedron_points) = 5
        /\ \A k \in 1..4 : polyhedron_points[k] = connections["Th1"][k][4]
        /\ polyhedron_points[5] = connections["Th1"][1][3]

ScenarioCounted == IsBound("CN_atom_count_data") /\ Present("Th1", "m1")

(***************************************************************************)
(* C5 as claimed: the point set has 5 points, the centre last, and when    *)
(* the hull succeeds the role count of Th1/m1 is {A_count: 1, B_count: 3}. *)
(***************************************************************************)
C5_ScenarioCountOneThree ==
    Scenario =>
        /\ ScenarioPointSet
        /\ ScenarioCounted =>
               CN_atom_count_data["Th1"]["m1"].rec = ("A_count" :> 1) @@ ("B_count" :> 3)

(***************************************************************************)
(* C5 as amended: the point set has 5 points, the centre last, and when    *)
(* the hull succeeds the role count of Th1/m1 is taken over the first      *)
(* number_of_vertices neighbours: {A_count: 0, B_count: 4} when 4 vertices *)
(* are reported and {A_count: 1, B_count: 4} when 5 are.                   *)
(***************************************************************************)
C5_ScenarioCountByVertices ==
    Scenario =>
        /\ ScenarioPointSet
        /\ ScenarioCounted =>
               LET nv == site_data["Th1"]["m1"].rec["number_of_vertices"]
               IN  /\ nv \in {4, 5}
                   /\ CN_atom_count_data["Th1"]["m1"].rec =
                          ("A_count" :> (IF nv = 5 THEN 1 ELSE 0)) @@ ("B_count" :> 4)

C5_Witness ==
    /\ Scenario
    /\ ScenarioCounted
    /\ Len(polyhedron_points) = 5
    /\ site_data["Th1"]["m1"].rec["number_of_vertices"] = 4
    /\ CN_atom_count_data["Th1"]["m1"].rec = ("A_count" :> 0) @@ ("B_count" :> 4)

(***************************************************************************)
(* C6.  Sites without geometry.                                            *)
(***************************************************************************)
MethodsOfSite(s) == DOMAIN CN_max_gap_per_site[s]
\* every method of the site is absent: skipped, or None after a failed hull
AbsentGeometry(s) == IsBound("CN_metrics") /\ \A m \in MethodsOfSite(s) : ~Present(s, m)
\* every method of the site was skipped for its small shell
AllSkipped(s) == IsBound("CN_metrics") /\ \A m \in MethodsOfSite(s) : ~HasShell(s, m)
Without(f, s) == [x \in DOMAIN f \ {s} |-> f[x]]
NoGeometryMetric(s) ==
    /\ IsBound("min_max_avg_CN_metrics") =>
           (s \in DOMAIN min_max_avg_CN_metrics /\ DOMAIN min_max_avg_CN_metrics[s] = {})
    /\ IsBound("avg_CN_metrics") =>
           avg_CN_metrics =
               _compute_global_avg_for_min_max_avg_metrics(Without(min_max_avg_CN_metrics, s))

(***************************************************************************)
(* C6 as claimed: a site whose methods all yield absent geometry gives no  *)
(* metric to the per-site and global geometry summaries, and the role      *)
(* counts do not depend on it: no error, and the site has its role-count   *)
(* record for every method, as it would with geometry.  Stated for the     *)
(* runs in which no entry is None, where absent means skipped.             *)
(***************************************************************************)
C6_RoleCountsIndependentOfGeometry ==
    \A s \in DOMAIN CN_max_gap_per_site :
        (AbsentGeometry(s) /\ NoNoneRecorded /\ Arity \in {2, 3, 4}) =>
            /\ NoGeometryMetric(s)
            /\ pc # "raised"
            /\ IsBound("CN_atom_count_data") =>
                   DOMAIN CN_atom_count_data[s] = MethodsOfSite(s)

(***************************************************************************)
(* C6 as amended: a site whose methods are all skipped (CN of 3 or less)   *)
(* has an empty entry in the geometry result and gives no metric to the    *)
(* per-site and global geometry summaries; the role counter iterates over  *)
(* the geometry result, so the site has no role-count record either and    *)
(* gives nothing to the per-site and global count summaries.  A site whose *)
(* geometry is absent with a None entry (a failed hull) ends the call with *)
(* TypeError before any reduction is bound.                                *)
(***************************************************************************)
C6_AbsentSiteHasNoRoleCounts ==
    \A s \in DOMAIN CN_max_gap_per_site :
        /\ AllSkipped(s) =>
               /\ s \in DOMAIN site_data /\ DOMAIN site_data[s] = {}
               /\ NoGeometryMetric(s)
               /\ IsBound("CN_atom_count_data") =>
                      (s \in DOMAIN CN_atom_count_data /\ DOMAIN CN_atom_count_data[s] = {})
               /\ IsBound("min_max_avg_CN_count") =>
                      (s \in DOMAIN min_max_avg_CN_count /\ DOMAIN min_max_avg_CN_count[s] = {})
               /\ IsBound("avg_CN_atom_count") =>
                      avg_CN_atom_count =
                          _compute_global_avg_for_min_max_avg_metrics(Without(min_max_avg_CN_count, s))
        /\ (AbsentGeometry(s) /\ \E m \in MethodsOfSite(s) : NoneRecorded(s, m)) =>
               /\ ~IsBound("min_max_avg_CN_metrics")
               /\ Terminated => (pc = "raised" /\ err = "TypeError")

\* Sb1 has no geometry, Th1 has, and the call has returned
C6_Witness ==
    /\ pc = "returned"
    /\ AllSkipped("Sb1")
    /\ Present("Th1", "m1")
    /\ DOMAIN CN_atom_count_data["Sb1"] = {}
    /\ DOMAIN CN_atom_count_data["Th1"] # {}
    /\ DOMAIN avg_CN_metrics["avg"] # {}


(***************************************************************************)
(* The role counters as functions of their arguments: one site with any    *)
(* neighbours of up to MaxNeighbors, over the four role elements and one   *)
(* more, and one method with any reported vertex count.  The state is the  *)
(* one get_CN_atom_count_data is in when it reaches helper.py:190.         *)
(***************************************************************************)
CountElements == ElementSet(5)
NeighborElements == UNION {[1..n -> CountElements] : n \in 0..MaxNeighbors}
ShellOf(site, elements) ==
    [k \in 1..Len(elements) |-> Connection(site, k, <<elements[k], k>>, k)]

InitCount ==
    /\ unique_elements \in {ElementSet(a) : a \in 2..4}
    /\ \E elements \in NeighborElements :
           /\ connections = ("Th1" :> ShellOf("Th1", elements))
           /\ CN_max_gap_per_site = ("Th1" :> ("m1" :> [CN |-> Len(elements)]))
    /\ \E number_of_vertices \in 0..(MaxNeighbors + 1) :
           site_data = ("Th1" :> ("m1" :> Dict("number_of_vertices" :> number_of_vertices)))
    /\ pc = "count"
    /\ err = "none"
    /\ i = 1
    /\ j = 1
    /\ polyhedron_points = <<>>
    /\ diagnostics = <<>>
    /\ hull_errors = {}
    /\ best_site_data = <<>>
    /\ results = <<>>
    /\ min_max_avg_CN_metrics = _compute_min_max_avg_per_atomic_label(site_data)
    /\ CN_atom_count_data = <<>>
    /\ min_max_avg_CN_count = <<>>
    /\ avg_CN_metrics = <<>>
    /\ avg_CN_atom_count = <<>>
    /\ bound = {"CN_metrics", "min_max_avg_CN_metrics"}

NextCount ==
    \/ CountBinary
    \/ CountTernary
    \/ CountQuaternary

SpecCount == InitCount /\ [][NextCount]_vars

RECURSIVE SumOver(_, _)
SumOver(f, keys) ==
    IF keys = {} THEN 0
    ELSE LET key == CHOOSE x \in keys : TRUE
         IN  f[key] + SumOver(f, keys \ {key})

RoleNames ==
    CASE Arity = 2 -> {"A_count", "B_count"}
      [] Arity = 3 -> {"R_count", "M_count", "X_count"}
      [] Arity = 4 -> {"A_count", "B_count", "C_count", "D_count"}

(***************************************************************************)
(* C7.  For every (site, method) pair with present metrics, the count      *)
(* record of the binary, ternary or quaternary counter holds every role of *)
(* the arity with a count of 0 or more; the counts sum to at most          *)
(* number_of_vertices, and to exactly number_of_vertices when the site has *)
(* that many neighbours and each of the first number_of_vertices has the   *)
(* element of a role.                                                      *)
(***************************************************************************)
C7_RoleCountsWithinVertices ==
    IsBound("CN_atom_count_data") =>
        \A s \in DOMAIN site_data : \A m \in DOMAIN site_data[s] :
            Present(s, m) =>
                LET rec == CN_atom_count_data[s][m].rec
                    nv == site_data[s][m].rec["number_of_vertices"]
                IN  /\ DOMAIN rec = RoleNames
                    /\ \A r \in RoleNames : rec[r] \in Nat
                    /\ SumOver(rec, RoleNames) <= nv
                    /\ ( /\ nv <= Len(connections[s])
                         /\ \A k \in 1..nv :
                                get_atom_type_from_label(connections[s][k][1]) \in unique_elements )
                       => SumOver(rec, RoleNames) = nv

\* a ternary count where one of the three counted neighbours has no role
C7_Witness ==
    /\ IsBound("CN_atom_count_data")
    /\ Arity = 3
    /\ site_data["Th1"]["m1"].rec["number_of_vertices"] = 3
    /\ CN_atom_count_data["Th1"]["m1"].rec = ("R_count" :> 1) @@ ("M_count" :> 0) @@ ("X_count" :> 1)


(***************************************************************************)
(* The two reducers as functions of their argument: any table of two       *)
(* labels, Th1 with two sub_keys and Sb1 with one, where each sub_key      *)
(* reports each of two metrics with a value of 0..MaxVal or not at all.    *)
(* The state is the one get_CN_atom_count_data is in when it reaches       *)
(* helper.py:200, for a structure without any geometry.                    *)
(***************************************************************************)
TableMetrics == {"A_count", "B_count"}
TableRecords ==
    UNION {[keys -> 0..MaxVal] : keys \in SUBSET TableMetrics}
TableDicts == {Dict(f) : f \in TableRecords}

InitReduce ==
    /\ unique_elements = ElementSet(2)
    /\ connections = StructureConnections
    /\ CN_max_gap_per_site = [s \in Sites |-> [m \in Methods |-> [CN |-> 0]]]
    /\ site_data = [s \in Sites |-> <<>>]
    /\ min_max_avg_CN_metrics = [s \in Sites |-> <<>>]
    /\ \E th1 \in [{"m1", "m2"} -> TableDicts] :
       \E sb1 \in [{"m1"} -> TableDicts] :
           CN_atom_count_data = ("Th1" :> th1) @@ ("Sb1" :> sb1)
    /\ pc = "reduce_count"
    /\ err = "none"
    /\ i = 2
    /\ j = 2
    /\ polyhedron_points = <<>>
    /\ diagnostics = <<>>
    /\ hull_errors = {}
    /\ best_site_data = <<>>
    /\ results = <<>>
    /\ min_max_avg_CN_count = <<>>
    /\ avg_CN_metrics = <<>>
    /\ avg_CN_atom_count = <<>>
    /\ bound = {"CN_metrics", "min_max_avg_CN_metrics", "CN_atom_count_data"}

NextReduce ==
    \/ ReduceCount
    \/ GlobalMetrics
    \/ GlobalCount
    \/ Return

SpecReduce == InitReduce /\ [][NextReduce]_vars

RECURSIVE RatSumOver(_, _)
RatSumOver(f, keys) ==
    IF keys = {} THEN <<0, 1>>
    ELSE LET key == CHOOSE x \in keys : TRUE
         IN  RatAdd(f[key], RatSumOver(f, keys \ {key}))

(***************************************************************************)
(* C8.  For every site, the per-site summary holds exactly the metric      *)
(* names that at least one sub_key of the site reports, and for each of    *)
(* them min is the least and max the greatest of the values of the         *)
(* sub_keys that report it and avg is their sum divided by their number;   *)
(* with one reporting sub_key, min = max = avg = its value.                *)
(***************************************************************************)
C8_PerSiteMinMaxAvg ==
    IsBound("min_max_avg_CN_count") =>
        \A s \in DOMAIN CN_atom_count_data :
            LET data == CN_atom_count_data[s]
                out == min_max_avg_CN_count[s]
                Reporting(key) == {m \in DOMAIN data : key \in DOMAIN data[m].rec}
            IN  /\ \A key \in TableMetrics : key \in DOMAIN out <=> Reporting(key) # {}
                /\ DOMAIN out \subseteq TableMetrics
                /\ \A key \in DOMAIN out :
                       LET value == [m \in Reporting(key) |-> data[m].rec[key]]
                           values == {value[m] : m \in Reporting(key)}
                           n == Cardinality(Reporting(key))
                       IN  /\ out[key].min \in values
                           /\ \A v \in values : out[key].min <= v
                           /\ out[key].max \in values
                           /\ \A v \in values : v <= out[key].max
                           /\ out[key].avg[2] > 0
                           /\ out[key].avg[1] * n = SumOver(value, Reporting(key)) * out[key].avg[2]
                           /\ n = 1 => /\ out[key].min = out[key].max
                                       /\ out[key].avg[1] = out[key].min * out[key].avg[2]

\* Th1 reports A_count twice with different values and B_count once; Sb1
\* reports nothing
C8_Witness ==
    /\ IsBound("min_max_avg_CN_count")
    /\ DOMAIN min_max_avg_CN_count["Th1"] = {"A_count", "B_count"}
    /\ min_max_avg_CN_count["Th1"]["A_count"].min = 0
    /\ min_max_avg_CN_count["Th1"]["A_count"].max = 1
    /\ RatEq(min_max_avg_CN_count["Th1"]["A_count"].avg, <<1, 2>>)
    /\ Cardinality({m \in DOMAIN CN_atom_count_data["Th1"] :
                       "B_count" \in DOMAIN CN_atom_count_data["Th1"][m].rec}) = 1
    /\ DOMAIN min_max_avg_CN_count["Sb1"] = {}

(***************************************************************************)
(* C9.  The global summary holds, under each of min, max and avg, exactly  *)
(* the metric names of the per-site summaries, and each value is the sum   *)
(* of that statistic over the sites that report the metric divided by the  *)
(* number of those sites.                                                  *)
(***************************************************************************)
C9_GlobalMeanOverContributingSites ==
    IsBound("avg_CN_atom_count") =>
        LET r == min_max_avg_CN_count
            g == avg_CN_atom_count
            names == UNION {DOMAIN r[s] : s \in DOMAIN r}
            Contributing(metric) == {s \in DOMAIN r : metric \in DOMAIN r[s]}
        IN  /\ DOMAIN g = {"min", "max", "avg"}
            /\ \A stat \in DOMAIN g :
                   /\ DOMAIN g[stat] = names
                   /\ \A metric \in names :
                          LET term == [s \in Contributing(metric) |->
                                          IF stat = "avg" THEN r[s][metric].avg
                                          ELSE <<r[s][metric][stat], 1>>]
                              total == RatSumOver(term, Contributing(metric))
                              n == Cardinality(Contributing(metric))
                          IN  /\ g[stat][metric][2] > 0
                              /\ g[stat][metric][1] * total[2] * n
                                     = total[1] * g[stat][metric][2]

\* A_count is reported by both sites and B_count by Th1 alone
C9_Witness ==
    /\ IsBound("avg_CN_atom_count")
    /\ DOMAIN min_max_avg_CN_count["Th1"] = {"A_count", "B_count"}
    /\ DOMAIN min_max_avg_CN_count["Sb1"] = {"A_count"}
    /\ min_max_avg_CN_count["Th1"]["A_count"].max = 2
    /\ min_max_avg_CN_count["Sb1"]["A_count"].max = 1
    /\ RatEq(avg_CN_atom_count["max"]["A_count"], <<3, 2>>)
    /\ RatEq(avg_CN_atom_count["max"]["B_count"],
             <<min_max_avg_CN_count["Th1"]["B_count"].max, 1>>)

(***************************************************************************)
(* C10.  For every metric of a global summary, the global min is at most   *)
(* the global avg and the global avg at most the global max.               *)
(***************************************************************************)
MinAvgMaxOrdered(g) ==
    \A metric \in DOMAIN g["avg"] :
        /\ RatLeq(g["min"][metric], g["avg"][metric])
        /\ RatLeq(g["avg"][metric], g["max"][metric])

MaxAvgCount == 2
Distances == {1, 2, 3}

BestLabelDetails ==
    {[shortest_dist |-> d1, second_shortest_dist |-> d2,
      counts |-> (d1 :> c) @@ (d2 :> c + 1)] :
         <<d1, d2, c>> \in {t \in Distances \X Distances \X (1..2) : t[1] < t[2]}}

BestSiteRecords ==
    [best_label_details : BestLabelDetails,
     avg_shortest_dist : 1..2,
     avg_second_shortest_dist_count : 0..MaxAvgCount]

InitEnv ==
    /\ unique_elements = ElementSet(3)
    /\ connections = StructureConnections
    /\ CN_max_gap_per_site = [s \in Sites |-> [m \in Methods |-> [CN |-> 0]]]
    /\ best_site_data \in [unique_elements -> BestSiteRecords]
    /\ results = <<>>
    /\ pc = "env"
    /\ err = "none"
    /\ i = 0
    /\ j = 0
    /\ polyhedron_points = <<>>
    /\ site_data = <<>>
    /\ diagnostics = <<>>
    /\ hull_errors = {}
    /\ min_max_avg_CN_metrics = <<>>
    /\ CN_atom_count_data = <<>>
    /\ min_max_avg_CN_count = <<>>
    /\ avg_CN_metrics = <<>>
    /\ avg_CN_atom_count = <<>>
    /\ bound = {}

\* ternary.py:21, :52, :70-93 and :100-161
compute_features ==
    /\ pc = "env"
    /\ LET RMX == get_role_elements(unique_elements)
           R == RMX[1]
           M == RMX[2]
           X == RMX[3]
           \* ternary.py:71-73
           R_shortest_dist == best_site_data[R]["best_label_details"]["shortest_dist"]
           M_shortest_dist == best_site_data[M]["best_label_details"]["shortest_dist"]
           X_shortest_dist == best_site_data[X]["best_label_details"]["shortest_dist"]
           \* ternary.py:75-77
           R_second_shortest_dist == best_site_data[R]["best_label_details"]["second_shortest_dist"]
           M_second_shortest_dist == best_site_data[M]["best_label_details"]["second_shortest_dist"]
           X_second_shortest_dist == best_site_data[X]["best_label_details"]["second_shortest_dist"]
           \* ternary.py:79-81
           R_shortest_dist_count == best_site_data[R]["best_label_details"]["counts"][R_shortest_dist]
           M_shortest_dist_count == best_site_data[M]["best_label_details"]["counts"][M_shortest_dist]
           X_shortest_dist_count == best_site_data[X]["best_label_details"]["counts"][X_shortest_dist]
           \* ternary.py:83-85
           R_second_shortest_dist_count ==
               best_site_data[R]["best_label_details"]["counts"][R_second_shortest_dist]
           M_second_shortest_dist_count ==
               best_site_data[M]["best_label_details"]["counts"][M_second_shortest_dist]
           X_second_shortest_dist_count ==
               best_site_data[X]["best_label_details"]["counts"][X_second_shortest_dist]
           \* ternary.py:87-89
           R_avg_shortest_dist_count == best_site_data[R]["avg_shortest_dist"]
           M_avg_shortest_dist_count == best_site_data[M]["avg_shortest_dist"]
           X_avg_shortest_dist_count == best_site_data[X]["avg_shortest_dist"]
           \* ternary.py:91-93
           R_avg_second_shortest_dist_count == best_site_data[R]["avg_second_shortest_dist_count"]
           M_avg_second_shortest_dist_count == best_site_data[M]["avg_second_shortest_dist_count"]
           X_avg_second_shortest_dist_count == best_site_data[M]["avg_second_shortest_dist_count"]
       IN  results' =
               ("ENV_R_shortest_dist_count" :> R_shortest_dist_count)
            @@ ("ENV_M_shortest_dist_count" :> M_shortest_dist_count)
            @@ ("ENV_X_shortest_dist_count" :> X_shortest_dist_count)
            @@ ("ENV_R_avg_shortest_dist_count" :> R_avg_shortest_dist_count)
            @@ ("ENV_M_avg_shortest_dist_count" :> M_avg_shortest_dist_count)
            @@ ("ENV_X_avg_shortest_dist_count" :> X_avg_shortest_dist_count)
            @@ ("ENV_R_second_by_first_shortest_dist" :>
                    RatDiv(ToRat(R_second_shortest_dist), R_shortest_dist))
            @@ ("ENV_M_second_by_first_shortest_dist" :>
                    RatDiv(ToRat(M_second_shortest_dist), M_shortest_dist))
            @@ ("ENV_X_second_by_first_shortest_dist" :>
                    RatDiv(ToRat(X_second_shortest_dist), X_shortest_dist))
            @@ ("ENV_R_second_shortest_dist_count" :> R_second_shortest_dist_count)
            @@ ("ENV_M_second_shortest_dist_count" :> M_second_shortest_dist_count)
            @@ ("ENV_X_second_shortest_dist_count" :> X_second_shortest_dist_count)
            @@ ("ENV_R_avg_second_shortest_dist_count" :> R_avg_second_shortest_dist_count)
            @@ ("ENV_M_avg_second_shortest_dist_count" :> M_avg_second_shortest_dist_count)
            @@ ("ENV_X_avg_second_shortest_dist_count" :> X_avg_second_shortest_dist_count)
    /\ pc' = "returned"
    /\ bound' = bound \cup {"results"}
    /\ UNCHANGED <<inputs, best_site_data, err, i, j, polyhedron_points, site_data,
                   diagnostics, hull_errors, min_max_avg_CN_metrics, CN_atom_count_data,
                   min_max_avg_CN_count, avg_CN_metrics, avg_CN_atom_count>>

NextEnv == compute_features

SpecEnv == InitEnv /\ [][NextEnv]_vars

\* the element of a role of the ternary structure: R, M, X are 1, 2, 3
RoleElement(r) == get_role_elements(unique_elements)[r]
\* R, M and X have three different values of avg_second_shortest_dist_count
RolesDiffer ==
    \A a, b \in unique_elements :
        a # b =>
            best_site_data[a].avg_second_shortest_dist_count
                # best_site_data[b].avg_second_shortest_dist_count
\* the fields of the best label of a role, read from that role's own entry
OwnBestLabelFields(r, shortest_count, second_count, ratio) ==
    LET own == best_site_data[RoleElement(r)].best_label_details
    IN  /\ results[shortest_count] = own.counts[own.shortest_dist]
        /\ results[second_count] = own.counts[own.second_shortest_dist]
        /\ RatEq(results[ratio], <<own.second_shortest_dist, own.shortest_dist>>)
\* the two averages of a role, read from that role's own entry
OwnAvgShortest(r, field) ==
    results[field] = best_site_data[RoleElement(r)].avg_shortest_dist
OwnAvgSecondShortest(r, field) ==
    results[field] = best_site_data[RoleElement(r)].avg_second_shortest_dist_count

(***************************************************************************)
(* C11.  In the ternary compute_features every per-role output field is    *)
(* the value of that role's own entry of best_site_data; in particular     *)
(* ENV_X_avg_second_shortest_dist_count is the                             *)
(* avg_second_shortest_dist_count of the entry of X, whenever the values   *)
(* of R, M and X differ.                                                   *)
(***************************************************************************)
C11_PerRoleFieldsFromOwnBestSite ==
    (IsBound("results") /\ RolesDiffer) =>
        /\ OwnBestLabelFields(1, "ENV_R_shortest_dist_count",
               "ENV_R_second_shortest_dist_count", "ENV_R_second_by_first_shortest_dist")
        /\ OwnBestLabelFields(2, "ENV_M_shortest_dist_count",
               "ENV_M_second_shortest_dist_count", "ENV_M_second_by_first_shortest_dist")
        /\ OwnBestLabelFields(3, "ENV_X_shortest_dist_count",
               "ENV_X_second_shortest_dist_count", "ENV_X_second_by_first_shortest_dist")
        /\ OwnAvgShortest(1, "ENV_R_avg_shortest_dist_count")
        /\ OwnAvgShortest(2, "ENV_M_avg_shortest_dist_count")
        /\ OwnAvgShortest(3, "ENV_X_avg_shortest_dist_count")
        /\ OwnAvgSecondShortest(1, "ENV_R_avg_second_shortest_dist_count")
        /\ OwnAvgSecondShortest(2, "ENV_M_avg_second_shortest_dist_count")
        /\ OwnAvgSecondShortest(3, "ENV_X_avg_second_shortest_dist_count")

\* what the code does: the field of X holds the average of the entry of M,
\* and every other field is read from the entry of its own role
EnvFieldsAsComputed ==
    IsBound("results") =>
        /\ OwnBestLabelFields(1, "ENV_R_shortest_dist_count",
               "ENV_R_second_shortest_dist_count", "ENV_R_second_by_first_shortest_dist")
        /\ OwnBestLabelFields(2, "ENV_M_shortest_dist_count",
               "ENV_M_second_shortest_dist_count", "ENV_M_second_by_first_shortest_dist")
        /\ OwnBestLabelFields(3, "ENV_X_shortest_dist_count",
               "ENV_X_second_shortest_dist_count", "ENV_X_second_by_first_shortest_dist")
        /\ OwnAvgShortest(1, "ENV_R_avg_shortest_dist_count")
        /\ OwnAvgShortest(2, "ENV_M_avg_shortest_dist_count")
        /\ OwnAvgShortest(3, "ENV_X_avg_shortest_dist_count")
        /\ OwnAvgSecondShortest(1, "ENV_R_avg_second_shortest_dist_count")
        /\ OwnAvgSecondShortest(2, "ENV_M_avg_second_shortest_dist_count")
        /\ OwnAvgSecondShortest(2, "ENV_X_avg_second_shortest_dist_count")

\* a returned dictionary whose field of X differs from the entry of X
EnvFieldOfXFromM ==
    /\ IsBound("results")
    /\ RolesDiffer
    /\ results["ENV_X_avg_second_shortest_dist_count"]
           # best_site_data[RoleElement(3)].avg_second_shortest_dist_count

=============================================================================
